---- MODULE Spec2Model ----
(***************************************************************************)
(* Checkout / return repository of rusty-book-manager                       *)
(* (adapter/src/repository/checkout.rs over adapter/src/database/mod.rs).   *)
(*                                                                          *)
(* The relational store is modelled as two committed tables, per-caller     *)
(* transactions with pending writes, and shared / exclusive locks keyed by  *)
(* book id, which is how a lock-based SERIALIZABLE level isolates the       *)
(* guard read from a concurrent insert.  SQL values are tagged pairs        *)
(* <<kind, n>> so that a placeholder bound to a value of another column's   *)
(* kind compares unequal to every value of that column.                     *)
(***************************************************************************)
EXTENDS Integers, Sequences, FiniteSets, TLC

\* ---------------------------------------------------------------- bounds
MaxCallers == 2
MaxOps == 2
MaxBooks == 2
MaxUsers == 2
MaxTime == 2
MaxStored == 2
MaxPasswords == 2

\* ---------------------------------------------------------------- values
Callers == 1..MaxCallers

BookId(n) == <<"book", n>>
UserId(n) == <<"user", n>>
CheckoutId(n) == <<"checkout", n>>
DateTime(n) == <<"datetime", n>>
Null == <<"null", 0>>

\* rows of the books table (fixture data; never written by this repository)
books == {BookId(n) : n \in 1..MaxBooks}
\* a book id with no row in books
MissingBook == BookId(0)
BookIds == books \cup {MissingBook}
UserIds == {UserId(n) : n \in 1..MaxUsers}
Times == {DateTime(n) : n \in 1..MaxTime}
\* every checkout id that can have been generated within MaxOps operations
CheckoutIds == {CheckoutId(n) : n \in 1..MaxOps}

\* kernel::model::checkout::event::CreateCheckout
CreateCheckout ==
    [book_id : BookIds, checked_out_by : UserIds, checked_out_at : Times]

\* kernel::model::checkout::event::UpdateReturned
UpdateReturned ==
    [checkout_id : CheckoutIds, book_id : BookIds,
     returned_by : UserIds, returned_at : Times]

NoEvent == [book_id |-> Null]
\* Option<CheckoutStateRow>::None, and the value before the guard read ran
None == [book_id |-> Null, checkout_id |-> Null, user_id |-> Null]
NotRead == [book_id |-> <<"unread", 0>>, checkout_id |-> Null, user_id |-> Null]

VARIABLES
    checkouts,           \* committed rows of table checkouts
    returned_checkouts,  \* committed rows of table returned_checkouts, in insertion order
    nextId,              \* number of checkout ids generated so far
    nOps,                \* number of operations started so far
    op,                  \* caller -> "none" | "create" | "update_returned"
    event,               \* caller -> the event of its current / last operation
    pc,                  \* caller -> position in the operation
    res,                 \* caller -> result of its last finished operation
    txOpen,              \* caller -> its transaction is open at the store
    guard,               \* caller -> row returned by its guard read
    pendIns,             \* caller -> rows inserted into checkouts, uncommitted
    pendRet,             \* caller -> rows inserted into returned_checkouts, uncommitted
    pendDel,             \* caller -> checkout ids deleted from checkouts, uncommitted
    sLock,               \* caller -> book ids it holds a shared lock on
    xLock,               \* caller -> book ids it holds an exclusive lock on
    ended,               \* caller -> how its last transaction ended
    cause,               \* caller -> why its last operation did not commit
    iso,                 \* caller -> its last transaction was set SERIALIZABLE
    hist,                \* the caller of find_history_by_book_id: position and values read
    script,              \* the calls of a scripted caller, in order
    usr,                 \* table users and the last operation of UserRepositoryImpl
    listed                \* what find_unreturned_all and find_unreturned_by_user_id returned

vars == <<checkouts, returned_checkouts, nextId, nOps, op, event, pc, res,
          txOpen, guard, pendIns, pendRet, pendDel, sLock, xLock, ended, cause,
          iso, hist, script, usr, listed>>

\* what the steps of create and update_returned leave alone
others == <<hist, script, usr, listed>>

tables == <<checkouts, returned_checkouts>>

\* ---------------------------------------------------------------- helpers
Range(s) == {s[i] : i \in 1..Len(s)}

RECURSIVE SetToSeq(_)
SetToSeq(S) ==
    IF S = {} THEN <<>>
    ELSE LET x == CHOOSE y \in S : TRUE IN <<x>> \o SetToSeq(S \ {x})

\* the checkouts table as transaction t sees it: committed rows, minus its
\* own deletes, plus its own inserts
Visible(t) ==
    {r \in checkouts : r.checkout_id \notin pendDel[t]} \cup pendIns[t]

\* locks held by callers other than t
OthersShared(t) == UNION {sLock[u] : u \in Callers \ {t}}
OthersExclusive(t) == UNION {xLock[u] : u \in Callers \ {t}}

\* ---------------------------------------------------------------- SQL
\* variant: the join starts from no books table, every book id yields a row
GuardRowsAnyBook(tbl, book_id, withUser) ==
    LET cs == {c \in tbl : c.book_id = book_id} IN
    IF cs = {}
    THEN {[book_id |-> book_id, checkout_id |-> Null, user_id |-> Null]}
    ELSE {[book_id |-> book_id, checkout_id |-> c.checkout_id,
           user_id |-> IF withUser THEN c.user_id ELSE Null] : c \in cs}

\* SELECT b.book_id, c.checkout_id, <user> FROM books b
\* LEFT OUTER JOIN checkouts c USING(book_id) WHERE book_id = ?
\* withUser: the statement of update_returned selects c.user_id, the one of
\* create selects NULL
GuardRows(tbl, book_id, withUser) ==
    IF book_id \notin books THEN {}
    ELSE LET cs == {c \in tbl : c.book_id = book_id} IN
         IF cs = {}
         THEN {[book_id |-> book_id, checkout_id |-> Null, user_id |-> Null]}
         ELSE {[book_id |-> book_id, checkout_id |-> c.checkout_id,
                user_id |-> IF withUser THEN c.user_id ELSE Null] : c \in cs}

\* fetch_optional: the first row of the result, or None
FetchOptional(rows) == IF rows = {} THEN {None} ELSE rows

\* variant: the arm for a book that is already checked out is missing
CreateGuardDecisionNoConflict(row) ==
    IF row = None THEN "EntityNotFound" ELSE "Proceed"

\* match res { None => EntityNotFound, Some{checkout_id: Some(_)} =>
\* UnprocessableEntity, _ => continue }
CreateGuardDecision(row) ==
    IF row = None THEN "EntityNotFound"
    ELSE IF row.checkout_id # Null THEN "UnprocessableEntity"
    ELSE "Proceed"

\* variant: the match guard compares the checkout id alone
UpdateReturnedGuardDecisionIdOnly(row, ev) ==
    IF row = None THEN "EntityNotFound"
    ELSE IF /\ row.checkout_id # Null
            /\ row.user_id # Null
            /\ row.checkout_id # ev.checkout_id
         THEN "UnprocessableEntity"
    ELSE "Proceed"

\* variant: a book with no open checkout is refused as well
UpdateReturnedGuardDecisionOpenOnly(row, ev) ==
    IF row = None THEN "EntityNotFound"
    ELSE IF <<row.checkout_id, row.user_id>> # <<ev.checkout_id, ev.returned_by>>
         THEN "UnprocessableEntity"
    ELSE "Proceed"

\* match res { None => EntityNotFound, Some{checkout_id: Some(c), user_id:
\* Some(u)} if (c, u) != (event.checkout_id, event.returned_by) =>
\* UnprocessableEntity, _ => continue }
UpdateReturnedGuardDecision(row, ev) ==
    IF row = None THEN "EntityNotFound"
    ELSE IF /\ row.checkout_id # Null
            /\ row.user_id # Null
            /\ <<row.checkout_id, row.user_id>> # <<ev.checkout_id, ev.returned_by>>
         THEN "UnprocessableEntity"
    ELSE "Proceed"

\* variant: book id and borrower bound to each other's placeholder
InsertCheckoutRowMisbound(checkout_id, ev) ==
    [checkout_id |-> checkout_id, book_id |-> ev.checked_out_by,
     user_id |-> ev.book_id, checked_out_at |-> ev.checked_out_at]

\* variant: the id of the new row is the one generated just before
InsertCheckoutRowStaleId(checkout_id, ev) ==
    [checkout_id |-> CheckoutId(checkout_id[2] - 1), book_id |-> ev.book_id,
     user_id |-> ev.checked_out_by, checked_out_at |-> ev.checked_out_at]

\* INSERT INTO checkouts (checkout_id, book_id, user_id, checked_out_at)
\* VALUES (?, ?, ?, ?) with the four arguments bound in order
InsertCheckoutRow(checkout_id, ev) ==
    [checkout_id |-> checkout_id, book_id |-> ev.book_id,
     user_id |-> ev.checked_out_by, checked_out_at |-> ev.checked_out_at]

\* variant: the arguments in the order of the statement's placeholders
InsertReturnedArgsInOrder(ev) == <<ev.returned_at, ev.checkout_id>>

\* the arguments handed to the INSERT ... SELECT of update_returned, in the
\* order they are bound to its placeholders
InsertReturnedArgs(ev) == <<ev.checkout_id, ev.returned_at>>

\* INSERT INTO returned_checkouts (...) SELECT checkout_id, book_id, user_id,
\* checked_out_at, ? FROM checkouts WHERE checkout_id = ?
\* the first placeholder is the returned_at value, the second the key
SelectForReturn(tbl, args) == {r \in tbl : r.checkout_id = args[2]}

InsertReturnedRows(tbl, args) ==
    {[checkout_id |-> r.checkout_id, book_id |-> r.book_id,
      user_id |-> r.user_id, checked_out_at |-> r.checked_out_at,
      returned_at |-> args[1]] : r \in SelectForReturn(tbl, args)}

\* DELETE FROM checkouts WHERE checkout_id = ?
DeleteRows(tbl, checkout_id) == {r \in tbl : r.checkout_id = checkout_id}

\* variant: the rows_affected check after the INSERT ... SELECT is missing
NoReturningUpdatedUnchecked(rows_affected) == FALSE

\* variant: the check after the insert of create asks for more than one row
NoCheckoutCreatedBelowTwo(rows_affected) == rows_affected <= 1

\* if res.rows_affected() < 1 { return Err(NoRowsAffectedError) }, after the
\* insert of create, the insert of update_returned and its delete
NoCheckoutCreated(rows_affected) == rows_affected < 1
NoReturningUpdated(rows_affected) == rows_affected < 1
NoCheckoutDeleted(rows_affected) == rows_affected < 1

\* Option<Checkout>::None
NoCheckout == [id |-> Null]

\* impl From<CheckoutRow> for Checkout (book metadata left out)
CheckoutFromRow(r) ==
    [id |-> r.checkout_id, checked_out_by |-> r.user_id,
     checked_out_at |-> r.checked_out_at, returned_at |-> Null,
     book_id |-> r.book_id]

\* SELECT ... FROM checkouts c INNER JOIN books b USING(book_id)
\* WHERE c.book_id = ?, fetch_optional, map(Checkout::from): the set of
\* values the call can return on table tbl (NoCheckout for Ok(None))
find_unreturned_by_book_id(tbl, book_id) ==
    LET rows == {c \in tbl : c.book_id = book_id /\ c.book_id \in books}
    IN IF rows = {} THEN {NoCheckout} ELSE {CheckoutFromRow(r) : r \in rows}

\* impl From<ReturnedCheckoutRow> for Checkout (book metadata left out)
CheckoutFromReturnedRow(r) ==
    [id |-> r.checkout_id, checked_out_by |-> r.user_id,
     checked_out_at |-> r.checked_out_at, returned_at |-> r.returned_at,
     book_id |-> r.book_id]

\* SELECT ... FROM returned_checkouts rc INNER JOIN books b USING(book_id)
\* WHERE rc.book_id = ?: the rows the second read of find_history_by_book_id
\* selects from table rc (a sequence), before ORDER BY
ReturnedRowsOfBook(rc, book_id) ==
    {rc[i] : i \in {j \in 1..Len(rc) :
                      rc[j].book_id = book_id /\ rc[j].book_id \in books}}

\* all the orders a set of rows can be listed in
RECURSIVE Arrangements(_)
Arrangements(rows) ==
    IF rows = {} THEN {<<>>}
    ELSE UNION {{<<r>> \o s : s \in Arrangements(rows \ {r})} : r \in rows}

\* variant: ORDER BY rc.checked_out_at ASC
OldestFirst(s) ==
    \A i \in 1..(Len(s) - 1) : s[i].checked_out_at[2] <= s[i + 1].checked_out_at[2]

\* ORDER BY rc.checked_out_at DESC holds of the row sequence s
NewestFirst(s) ==
    \A i \in 1..(Len(s) - 1) : s[i].checked_out_at[2] >= s[i + 1].checked_out_at[2]

\* fetch_all of the second read of find_history_by_book_id and
\* into_iter().map(Checkout::from).collect(): the values it can produce on
\* table rc (rows with equal checked_out_at come in either order)
ReturnedHistories(rc, book_id) ==
    {[i \in 1..Len(s) |-> CheckoutFromReturnedRow(s[i])] :
        s \in {a \in Arrangements(ReturnedRowsOfBook(rc, book_id)) : NewestFirst(a)}}

\* variant: the open checkout is pushed behind the returned ones
OpenLast(co, checkout_histories) ==
    IF co # NoCheckout THEN checkout_histories \o <<co>> ELSE checkout_histories

\* variant: the open checkout is not put into the result
OpenLeftOut(co, checkout_histories) == checkout_histories

\* if let Some(co) = checkout { checkout_histories.insert(0, co); }
OpenFirst(co, checkout_histories) ==
    IF co # NoCheckout THEN <<co>> \o checkout_histories ELSE checkout_histories

\* find_history_by_book_id when nothing commits between its two reads
find_history_by_book_id(tbl, rc, book_id) ==
    {OpenFirst(co, h) : co \in find_unreturned_by_book_id(tbl, book_id),
                        h \in ReturnedHistories(rc, book_id)}

\* variant: ORDER BY c.checked_out_at DESC
CheckedOutDescending(s) ==
    \A i \in 1..(Len(s) - 1) : s[i].checked_out_at[2] >= s[i + 1].checked_out_at[2]

\* ORDER BY c.checked_out_at ASC holds of the row sequence s
CheckedOutAscending(s) ==
    \A i \in 1..(Len(s) - 1) : s[i].checked_out_at[2] <= s[i + 1].checked_out_at[2]

\* fetch_all and map(Checkout::from) of an ordered SELECT over rows: the
\* values it can produce (rows with equal checked_out_at in either order)
OrderedCheckouts(rows) ==
    {[i \in 1..Len(s) |-> CheckoutFromRow(s[i])] :
        s \in {a \in Arrangements(rows) : CheckedOutAscending(a)}}

\* SELECT ... FROM checkouts c INNER JOIN books b USING(book_id)
\* ORDER BY c.checked_out_at ASC
find_unreturned_all(tbl) ==
    OrderedCheckouts({c \in tbl : c.book_id \in books})

\* the same with WHERE c.user_id = ?
find_unreturned_by_user_id(tbl, user_id) ==
    OrderedCheckouts({c \in tbl : c.book_id \in books /\ c.user_id = user_id})

\* ---------------------------------------------------------------- store
\* variant: the commit leaves returned_checkouts with the rows of this
\* transaction alone
AfterCommitReplacing(t) ==
    <<{r \in checkouts : r.checkout_id \notin pendDel[t]} \cup pendIns[t],
      SetToSeq(pendRet[t])>>

\* tx.commit(): the pending writes become the committed tables
AfterCommit(t) ==
    <<{r \in checkouts : r.checkout_id \notin pendDel[t]} \cup pendIns[t],
      returned_checkouts \o SetToSeq(pendRet[t])>>

\* variant: dropping the handle applies the pending writes
AfterRollbackApplied(t) == AfterCommit(t)

\* the transaction handle goes out of scope uncommitted: rollback
AfterRollback(t) == <<checkouts, returned_checkouts>>

\* the handle is closed at the store once it was committed or dropped
HandleOpenAfterDrop(t) == FALSE

\* locks the next statement of t needs
WantsShared(t) ==
    CASE pc[t] = "serializable" -> {event[t].book_id}
      [] pc[t] = "guarded" /\ op[t] = "update_returned" ->
            {r.book_id : r \in SelectForReturn(Visible(t), InsertReturnedArgs(event[t]))}
      [] OTHER -> {}

WantsExclusive(t) ==
    CASE pc[t] = "guarded" /\ op[t] = "create" -> {event[t].book_id}
      [] pc[t] = "moved" ->
            {r.book_id : r \in DeleteRows(Visible(t), event[t].checkout_id)}
      [] OTHER -> {}

WaitsFor(t, u) ==
    /\ u # t
    /\ \/ WantsExclusive(t) \cap (sLock[u] \cup xLock[u]) # {}
       \/ WantsShared(t) \cap xLock[u] # {}

\* variant: the transaction runs at a level whose reads take no locks
BlockedNever(t) == FALSE

Blocked(t) == \E u \in Callers : WaitsFor(t, u)
Deadlocked(t) == \E u \in Callers : WaitsFor(t, u) /\ WaitsFor(u, t)

\* ---------------------------------------------------------------- Init
\* find_history_by_book_id has not been called
NoHistory == [pc |-> "idle", book_id |-> Null, open |-> NoCheckout,
              histories |-> <<>>, ops |-> 0, between |-> FALSE]

\* neither list has been asked for
NotFound == [allDone |-> FALSE, all |-> <<>>,
             byDone |-> FALSE, user_id |-> Null, by |-> <<>>]

\* no scripted caller
NoScript == <<>>

\* UserRepositoryImpl is not in use
NoUsers == [rows |-> {}, n |-> 0, op |-> "none", event |-> NoEvent,
            res |-> "none"]

\* no caller has called anything yet
NoCalls ==
    /\ op = [t \in Callers |-> "none"]
    /\ event = [t \in Callers |-> NoEvent]
    /\ pc = [t \in Callers |-> "idle"]
    /\ res = [t \in Callers |-> "none"]
    /\ txOpen = [t \in Callers |-> FALSE]
    /\ guard = [t \in Callers |-> NotRead]
    /\ pendIns = [t \in Callers |-> {}]
    /\ pendRet = [t \in Callers |-> {}]
    /\ pendDel = [t \in Callers |-> {}]
    /\ sLock = [t \in Callers |-> {}]
    /\ xLock = [t \in Callers |-> {}]
    /\ ended = [t \in Callers |-> "none"]
    /\ cause = [t \in Callers |-> "none"]
    /\ iso = [t \in Callers |-> FALSE]

Init ==
    /\ checkouts = {}
    /\ returned_checkouts = <<>>
    /\ nextId = 0
    /\ nOps = 0
    /\ NoCalls
    /\ hist = NoHistory
    /\ script = NoScript
    /\ usr = NoUsers
    /\ listed = NotFound

\* ---------------------------------------------------------------- steps
\* the operation of t returns Err(e) or is abandoned: tx is dropped
Fail(t, e, why) ==
    /\ res' = [res EXCEPT ![t] = e]
    /\ cause' = [cause EXCEPT ![t] = why]
    /\ pc' = [pc EXCEPT ![t] = "idle"]
    /\ checkouts' = AfterRollback(t)[1]
    /\ returned_checkouts' = AfterRollback(t)[2]
    /\ txOpen' = [txOpen EXCEPT ![t] = HandleOpenAfterDrop(t)]
    /\ ended' = [ended EXCEPT ![t] = "rollback"]
    /\ pendIns' = [pendIns EXCEPT ![t] = {}]
    /\ pendRet' = [pendRet EXCEPT ![t] = {}]
    /\ pendDel' = [pendDel EXCEPT ![t] = {}]
    /\ sLock' = [sLock EXCEPT ![t] = {}]
    /\ xLock' = [xLock EXCEPT ![t] = {}]

Events(o) == IF o = "create" THEN CreateCheckout ELSE UpdateReturned

\* t calls operation o with event ev and self.db.begin() succeeds
Start(t, o, ev) ==
    /\ pc[t] = "idle"
    /\ op' = [op EXCEPT ![t] = o]
    /\ event' = [event EXCEPT ![t] = ev]
    /\ nOps' = nOps + 1
    /\ iso' = [iso EXCEPT ![t] = FALSE]
    /\ pc' = [pc EXCEPT ![t] = "begun"]
    /\ res' = [res EXCEPT ![t] = "pending"]
    /\ txOpen' = [txOpen EXCEPT ![t] = TRUE]
    /\ ended' = [ended EXCEPT ![t] = "open"]
    /\ cause' = [cause EXCEPT ![t] = "none"]
    /\ guard' = [guard EXCEPT ![t] = NotRead]
    /\ UNCHANGED <<checkouts, returned_checkouts, nextId, pendIns, pendRet,
                   pendDel, sLock, xLock>>
    /\ UNCHANGED others

\* any caller, any operation, any event
Begin(t) ==
    /\ nOps < MaxOps
    /\ \E o \in {"create", "update_returned"} : \E ev \in Events(o) :
          Start(t, o, ev)

\* self.db.begin() fails: map_err(AppError::TransactionError), no transaction
BeginError(t) ==
    /\ pc[t] = "idle"
    /\ nOps < MaxOps
    /\ \E o \in {"create", "update_returned"} : op' = [op EXCEPT ![t] = o]
    /\ event' = [event EXCEPT ![t] = NoEvent]
    /\ nOps' = nOps + 1
    /\ res' = [res EXCEPT ![t] = "TransactionError"]
    /\ ended' = [ended EXCEPT ![t] = "none"]
    /\ cause' = [cause EXCEPT ![t] = "store"]
    /\ guard' = [guard EXCEPT ![t] = NotRead]
    /\ iso' = [iso EXCEPT ![t] = FALSE]
    /\ UNCHANGED <<checkouts, returned_checkouts, nextId, pc, txOpen, pendIns,
                   pendRet, pendDel, sLock, xLock>>
    /\ UNCHANGED others

\* set_transaction_serializable succeeds
SetTransactionSerializable(t) ==
    /\ pc[t] = "begun"
    /\ pc' = [pc EXCEPT ![t] = "serializable"]
    /\ iso' = [iso EXCEPT ![t] = TRUE]
    /\ UNCHANGED others
    /\ UNCHANGED <<checkouts, returned_checkouts, nextId, nOps, op, event, res,
                   txOpen, guard, pendIns, pendRet, pendDel, sLock, xLock,
                   ended, cause>>

\* set_transaction_serializable fails: map_err(SpecificOperationError)?
SetTransactionSerializableError(t) ==
    /\ pc[t] = "begun"
    /\ Fail(t, "SpecificOperationError", "store")
    /\ UNCHANGED <<nextId, nOps, op, event, guard>>
    /\ UNCHANGED <<iso, others>>

\* variant: the guard read does not wait for the isolation statement
GuardNextAnyLevel(t) == pc[t] \in {"begun", "serializable"}

\* the guard read is the statement after set_transaction_serializable
GuardNext(t) == pc[t] = "serializable"

\* the guard read of create and the match on its result
CreateGuard(t) ==
    /\ GuardNext(t)
    /\ op[t] = "create"
    /\ event[t].book_id \notin OthersExclusive(t)
    /\ \E row \in FetchOptional(GuardRows(Visible(t), event[t].book_id, FALSE)) :
          /\ guard' = [guard EXCEPT ![t] = row]
          /\ IF CreateGuardDecision(row) = "Proceed"
             THEN /\ pc' = [pc EXCEPT ![t] = "guarded"]
                  /\ sLock' = [sLock EXCEPT ![t] = @ \cup {event[t].book_id}]
                  /\ UNCHANGED <<checkouts, returned_checkouts, res, txOpen,
                                 pendIns, pendRet, pendDel, xLock, ended, cause>>
             ELSE Fail(t, CreateGuardDecision(row), "error")
    /\ UNCHANGED <<nextId, nOps, op, event>>
    /\ UNCHANGED <<iso, others>>

\* CheckoutId::new(), the INSERT and its rows_affected check
CreateInsert(t) ==
    /\ pc[t] = "guarded"
    /\ op[t] = "create"
    /\ ~Blocked(t)
    /\ nextId' = nextId + 1
    /\ LET row == InsertCheckoutRow(CheckoutId(nextId + 1), event[t])
           rows_affected == Cardinality({row})
       IN IF NoCheckoutCreated(rows_affected)
          THEN Fail(t, "NoRowsAffectedError", "error")
          ELSE /\ pendIns' = [pendIns EXCEPT ![t] = @ \cup {row}]
               /\ xLock' = [xLock EXCEPT ![t] = @ \cup {row.book_id}]
               /\ pc' = [pc EXCEPT ![t] = "written"]
               /\ UNCHANGED <<checkouts, returned_checkouts, res, txOpen,
                              pendRet, pendDel, sLock, ended, cause>>
    /\ UNCHANGED <<nOps, op, event, guard>>
    /\ UNCHANGED <<iso, others>>

\* the guard read of update_returned and the match on its result
UpdateReturnedGuard(t) ==
    /\ GuardNext(t)
    /\ op[t] = "update_returned"
    /\ event[t].book_id \notin OthersExclusive(t)
    /\ \E row \in FetchOptional(GuardRows(Visible(t), event[t].book_id, TRUE)) :
          /\ guard' = [guard EXCEPT ![t] = row]
          /\ IF UpdateReturnedGuardDecision(row, event[t]) = "Proceed"
             THEN /\ pc' = [pc EXCEPT ![t] = "guarded"]
                  /\ sLock' = [sLock EXCEPT ![t] = @ \cup {event[t].book_id}]
                  /\ UNCHANGED <<checkouts, returned_checkouts, res, txOpen,
                                 pendIns, pendRet, pendDel, xLock, ended, cause>>
             ELSE Fail(t, UpdateReturnedGuardDecision(row, event[t]), "error")
    /\ UNCHANGED <<nextId, nOps, op, event>>
    /\ UNCHANGED <<iso, others>>

\* the two writes of update_returned, each with its rows_affected check:
\* at "guarded" the INSERT ... SELECT, at "moved" the DELETE
UpdateReturnedWrite(t) ==
    /\ pc[t] \in {"guarded", "moved"}
    /\ op[t] = "update_returned"
    /\ ~Blocked(t)
    /\ IF pc[t] = "guarded"
       THEN LET rows == InsertReturnedRows(Visible(t), InsertReturnedArgs(event[t]))
            IN IF NoReturningUpdated(Cardinality(rows))
               THEN Fail(t, "NoRowsAffectedError", "error")
               ELSE /\ pendRet' = [pendRet EXCEPT ![t] = @ \cup rows]
                    /\ sLock' = [sLock EXCEPT ![t] = @ \cup {r.book_id : r \in rows}]
                    /\ pc' = [pc EXCEPT ![t] = "moved"]
                    /\ UNCHANGED <<checkouts, returned_checkouts, res, txOpen,
                                   pendIns, pendDel, xLock, ended, cause>>
       ELSE LET rows == DeleteRows(Visible(t), event[t].checkout_id)
            IN IF NoCheckoutDeleted(Cardinality(rows))
               THEN Fail(t, "NoRowsAffectedError", "error")
               ELSE /\ pendDel' = [pendDel EXCEPT ![t] =
                                      @ \cup {r.checkout_id : r \in rows}]
                    /\ xLock' = [xLock EXCEPT ![t] = @ \cup {r.book_id : r \in rows}]
                    /\ pc' = [pc EXCEPT ![t] = "written"]
                    /\ UNCHANGED <<checkouts, returned_checkouts, res, txOpen,
                                   pendIns, pendRet, sLock, ended, cause>>
    /\ UNCHANGED <<nextId, nOps, op, event, guard>>
    /\ UNCHANGED <<iso, others>>

\* a statement of the transaction (guard read, insert, delete) fails at the
\* store: map_err(AppError::SpecificOperationError)?
StatementError(t) ==
    /\ pc[t] \in {"serializable", "guarded", "moved"}
    /\ Fail(t, "SpecificOperationError", "store")
    /\ UNCHANGED <<nextId, nOps, op, event, guard>>
    /\ UNCHANGED <<iso, others>>

\* the store finds t in a lock cycle and aborts the statement t is waiting
\* in: the statement's error goes through map_err(SpecificOperationError)?
DeadlockVictim(t) ==
    /\ pc[t] \in {"serializable", "guarded", "moved"}
    /\ Deadlocked(t)
    /\ Fail(t, "SpecificOperationError", "serialization")
    /\ UNCHANGED <<nextId, nOps, op, event, guard>>
    /\ UNCHANGED <<iso, others>>

\* tx.commit() succeeds; Ok(())
Commit(t) ==
    /\ pc[t] = "written"
    /\ checkouts' = AfterCommit(t)[1]
    /\ returned_checkouts' = AfterCommit(t)[2]
    /\ res' = [res EXCEPT ![t] = "Ok"]
    /\ pc' = [pc EXCEPT ![t] = "idle"]
    /\ txOpen' = [txOpen EXCEPT ![t] = FALSE]
    /\ ended' = [ended EXCEPT ![t] = "commit"]
    /\ pendIns' = [pendIns EXCEPT ![t] = {}]
    /\ pendRet' = [pendRet EXCEPT ![t] = {}]
    /\ pendDel' = [pendDel EXCEPT ![t] = {}]
    /\ sLock' = [sLock EXCEPT ![t] = {}]
    /\ xLock' = [xLock EXCEPT ![t] = {}]
    /\ UNCHANGED <<nextId, nOps, op, event, guard, cause>>
    /\ UNCHANGED <<iso, others>>

\* tx.commit() fails: map_err(AppError::TransactionError)?
CommitError(t) ==
    /\ pc[t] = "written"
    /\ Fail(t, "TransactionError", "store")
    /\ UNCHANGED <<nextId, nOps, op, event, guard>>
    /\ UNCHANGED <<iso, others>>

\* the caller drops the future of the operation at an await point
Cancel(t) ==
    /\ pc[t] \in {"begun", "serializable", "guarded", "moved", "written"}
    /\ Fail(t, "Cancelled", "cancel")
    /\ UNCHANGED <<nextId, nOps, op, event, guard>>
    /\ UNCHANGED <<iso, others>>

Next ==
    \E t \in Callers :
        \/ Begin(t)
        \/ BeginError(t)
        \/ SetTransactionSerializable(t)
        \/ SetTransactionSerializableError(t)
        \/ CreateGuard(t)
        \/ CreateInsert(t)
        \/ UpdateReturnedGuard(t)
        \/ UpdateReturnedWrite(t)
        \/ StatementError(t)
        \/ DeadlockVictim(t)
        \/ Commit(t)
        \/ CommitError(t)
        \/ Cancel(t)

Spec == Init /\ [][Next]_vars

\* ------------------------------------------- a database with history in it
\* a row of returned_checkouts that was there when the pool connected
StoredRow(n, book_id, at) ==
    [checkout_id |-> CheckoutId(n), book_id |-> book_id, user_id |-> UserId(1),
     checked_out_at |-> at, returned_at |-> DateTime(MaxTime)]

StoredHistories ==
    UNION {{[i \in 1..n |-> StoredRow(i, f[i][1], f[i][2])] :
               f \in [1..n -> books \X Times]} : n \in 0..MaxStored}

InitStored ==
    /\ checkouts = {}
    /\ returned_checkouts \in StoredHistories
    /\ nextId = Len(returned_checkouts)
    /\ nOps = 0
    /\ NoCalls
    /\ hist = NoHistory
    /\ script = NoScript
    /\ usr = NoUsers
    /\ listed = NotFound

\* between the first read of the history (when nOps was hist.ops) and now,
\* the one caller there is has called update_returned for the checkout that
\* read listed open, as its borrower, and the call has run to its end
ReturnedBetweenReads ==
    \E t \in Callers :
        /\ \A u \in Callers \ {t} : op[u] = "none"
        /\ nOps > hist.ops
        /\ op[t] = "update_returned"
        /\ pc[t] = "idle"
        /\ cause[t] \in {"none", "error"}
        /\ hist.open # NoCheckout
        /\ event[t].checkout_id = hist.open.id
        /\ event[t].book_id = hist.book_id
        /\ event[t].returned_by = hist.open.checked_out_by

\* the first read of find_history_by_book_id: find_unreturned_by_book_id
HistoryReadOpen ==
    /\ hist.pc = "idle"
    /\ \E book_id \in BookIds :
       \E co \in find_unreturned_by_book_id(checkouts, book_id) :
          hist' = [pc |-> "open_read", book_id |-> book_id, open |-> co,
                   histories |-> <<>>, ops |-> nOps, between |-> FALSE]
    /\ UNCHANGED <<checkouts, returned_checkouts, nextId, nOps, op, event, pc,
                   res, txOpen, guard, pendIns, pendRet, pendDel, sLock, xLock,
                   ended, cause, iso, script, usr, listed>>

\* its second read, of returned_checkouts, and the insert of the open
\* checkout at index 0
HistoryReadReturned ==
    /\ hist.pc = "open_read"
    /\ \E h \in ReturnedHistories(returned_checkouts, hist.book_id) :
          hist' = [hist EXCEPT !.pc = "done",
                               !.histories = OpenFirst(hist.open, h),
                               !.between = ReturnedBetweenReads]
    /\ UNCHANGED <<checkouts, returned_checkouts, nextId, nOps, op, event, pc,
                   res, txOpen, guard, pendIns, pendRet, pendDel, sLock, xLock,
                   ended, cause, iso, script, usr, listed>>

\* one caller of create and update_returned beside the reader
NextStored ==
    \/ Begin(1)
    \/ BeginError(1)
    \/ SetTransactionSerializable(1)
    \/ SetTransactionSerializableError(1)
    \/ CreateGuard(1)
    \/ CreateInsert(1)
    \/ UpdateReturnedGuard(1)
    \/ UpdateReturnedWrite(1)
    \/ StatementError(1)
    \/ Commit(1)
    \/ CommitError(1)
    \/ Cancel(1)
    \/ HistoryReadOpen
    \/ HistoryReadReturned

SpecStored == InitStored /\ [][NextStored]_vars

\* ------------------------------------------------- the lists of open checkouts
\* the open checkout of book n in a database that has one
OpenRow(n, user_id, at) ==
    [checkout_id |-> CheckoutId(n), book_id |-> BookId(n), user_id |-> user_id,
     checked_out_at |-> at]

\* the tables checkouts with at most one row for a book
OpenTables ==
    UNION {{{OpenRow(n, f[n][1], f[n][2]) : n \in bs} :
               f \in [bs -> UserIds \X Times]} : bs \in SUBSET (1..MaxBooks)}

InitLists ==
    /\ checkouts \in OpenTables
    /\ returned_checkouts = <<>>
    /\ nextId = MaxBooks
    /\ nOps = 0
    /\ NoCalls
    /\ hist = NoHistory
    /\ script = NoScript
    /\ usr = NoUsers
    /\ listed = NotFound

FindUnreturnedAll ==
    /\ ~listed.allDone
    /\ \E a \in find_unreturned_all(checkouts) :
          listed' = [listed EXCEPT !.allDone = TRUE, !.all = a]
    /\ UNCHANGED <<checkouts, returned_checkouts, nextId, nOps, op, event, pc,
                   res, txOpen, guard, pendIns, pendRet, pendDel, sLock, xLock,
                   ended, cause, iso, hist, script, usr>>

FindUnreturnedByUserId ==
    /\ ~listed.byDone
    /\ \E user_id \in UserIds :
       \E a \in find_unreturned_by_user_id(checkouts, user_id) :
          listed' = [listed EXCEPT !.byDone = TRUE, !.user_id = user_id, !.by = a]
    /\ UNCHANGED <<checkouts, returned_checkouts, nextId, nOps, op, event, pc,
                   res, txOpen, guard, pendIns, pendRet, pendDel, sLock, xLock,
                   ended, cause, iso, hist, script, usr>>

NextLists == FindUnreturnedAll \/ FindUnreturnedByUserId

SpecLists == InitLists /\ [][NextLists]_vars

\* ------------------------------- a database with a checkout open in it
\* book 1 is checked out (checkout 1) and an earlier checkout of a book
\* (checkout MaxOps) is in the history; both callers run any operation
InitOpen ==
    /\ \E user_id \in UserIds : \E book_id \in books :
          /\ checkouts = {OpenRow(1, user_id, DateTime(1))}
          /\ returned_checkouts = <<StoredRow(MaxOps, book_id, DateTime(1))>>
    /\ nextId = MaxOps
    /\ nOps = 0
    /\ NoCalls
    /\ hist = NoHistory
    /\ script = NoScript
    /\ usr = NoUsers
    /\ listed = NotFound

SpecOpen == InitOpen /\ [][Next]_vars

\* ------------------------------------------------------------- users
\* kernel::model::role::Role and its as_ref() name
Admin == <<"role", 1>>
User == <<"role", 2>>
RoleId(n) == <<"role_id", n>>

\* rows of table roles (fixture data)
roles == {[role_id |-> RoleId(1), name |-> Admin],
          [role_id |-> RoleId(2), name |-> User]}

Passwords == {<<"password", n>> : n \in 1..MaxPasswords}

\* bcrypt::hash: the hash verifies the password it was made of and no other
hash_password(password) == <<"hash", password[2]>>

\* the user of fixture common (an Admin) and the ids UserId::new() produces
FixtureUser == UserId(0)
AnyUserIds == {UserId(n) : n \in 0..MaxUsers}

\* kernel::model::user::event
CreateUser == [password : Passwords]
UpdateUserRole == [user_id : AnyUserIds, role : {Admin, User}]
DeleteUser == [user_id : AnyUserIds]
UpdateUserPassword ==
    [user_id : AnyUserIds, current_password : Passwords,
     new_password : Passwords]

\* bcrypt::verify(password, hash)
verify_password(password, hash) == hash = hash_password(password)

\* everything of CheckoutRepositoryImpl
checkoutRepository ==
    <<checkouts, returned_checkouts, nextId, nOps, op, event, pc, res, txOpen,
      guard, pendIns, pendRet, pendDel, sLock, xLock, ended, cause, iso, hist,
      script, listed>>

InitUsers ==
    /\ checkouts = {}
    /\ returned_checkouts = <<>>
    /\ nextId = 0
    /\ nOps = 0
    /\ NoCalls
    /\ hist = NoHistory
    /\ script = NoScript
    /\ usr = [rows |-> {[user_id |-> FixtureUser, role_id |-> RoleId(1),
                         password_hash |-> hash_password(<<"password", 1>>)]},
              n |-> 0, op |-> "none", event |-> NoEvent, res |-> "none"]
    /\ listed = NotFound

\* INSERT INTO users(...) SELECT ?, ?, ?, ?, role_id FROM roles WHERE name = ?
InsertUserRows(user_id, hashed_password, role) ==
    {[user_id |-> user_id, role_id |-> r.role_id,
      password_hash |-> hashed_password] : r \in {x \in roles : x.name = role}}

\* create: UserId::new(), hash_password, the insert with Role::User
UserCreate ==
    /\ usr.n < MaxUsers
    /\ \E ev \in CreateUser :
         LET rows == InsertUserRows(UserId(usr.n + 1),
                                    hash_password(ev.password), User)
         IN usr' = [rows |-> usr.rows \cup rows, n |-> usr.n + 1,
                    op |-> "create", event |-> ev,
                    res |-> IF Cardinality(rows) < 1
                            THEN "NoRowsAffectedError" ELSE "Ok"]
    /\ UNCHANGED checkoutRepository

\* the arguments of the UPDATE of update_role, in the order they are bound
UpdateRoleArgs(ev) == <<ev.user_id, ev.role>>

\* SELECT role_id FROM roles WHERE name = ? (first placeholder), as a scalar
RoleIdNamed(name) ==
    IF \E r \in roles : r.name = name
    THEN (CHOOSE r \in roles : r.name = name).role_id
    ELSE Null

\* ... WHERE user_id = ? (second placeholder)
RoleUpdateMatches(rows, args) == {u \in rows : u.user_id = args[2]}

\* update_role: the UPDATE and its rows_affected check
UserUpdateRole ==
    /\ \E ev \in UpdateUserRole :
         LET args == UpdateRoleArgs(ev)
             matched == RoleUpdateMatches(usr.rows, args)
         IN usr' = [usr EXCEPT
                      !.rows = (usr.rows \ matched) \cup
                               {[u EXCEPT !.role_id = RoleIdNamed(args[1])] :
                                   u \in matched},
                      !.op = "update_role", !.event = ev,
                      !.res = IF Cardinality(matched) < 1
                              THEN "EntityNotFound" ELSE "Ok"]
    /\ UNCHANGED checkoutRepository

\* delete: DELETE FROM users WHERE user_id = ? and its rows_affected check
UserDelete ==
    /\ \E ev \in DeleteUser :
         LET matched == {u \in usr.rows : u.user_id = ev.user_id}
         IN usr' = [usr EXCEPT
                      !.rows = usr.rows \ matched,
                      !.op = "delete", !.event = ev,
                      !.res = IF Cardinality(matched) < 1
                              THEN "EntityNotFound" ELSE "Ok"]
    /\ UNCHANGED checkoutRepository

\* the arguments of the UPDATE of update_password, in the order they are
\* bound
UpdatePasswordArgs(ev, new_password_hash) == <<ev.user_id, new_password_hash>>

\* UPDATE users SET password_hash = ? WHERE user_id = ?: the first
\* placeholder is the new value, the second the key
PasswordUpdateMatches(rows, args) == {u \in rows : u.user_id = args[2]}

\* update_password: fetch_one of the stored hash, verify_password, the
\* UPDATE (with no rows_affected check) and the commit
UserUpdatePassword ==
    /\ \E ev \in UpdateUserPassword :
         LET selected == {u \in usr.rows : u.user_id = ev.user_id}
             args == UpdatePasswordArgs(ev, hash_password(ev.new_password))
             matched == PasswordUpdateMatches(usr.rows, args)
         IN IF selected = {}
            THEN usr' = [usr EXCEPT !.op = "update_password", !.event = ev,
                                    !.res = "SpecificOperationError"]
            ELSE IF \E u \in selected :
                       ~verify_password(ev.current_password, u.password_hash)
            THEN usr' = [usr EXCEPT !.op = "update_password", !.event = ev,
                                    !.res = "UnauthenticatedError"]
            ELSE usr' = [usr EXCEPT
                           !.rows = (usr.rows \ matched) \cup
                                    {[u EXCEPT !.password_hash = args[1]] :
                                        u \in matched},
                           !.op = "update_password", !.event = ev,
                           !.res = "Ok"]
    /\ UNCHANGED checkoutRepository

NextUsers == UserCreate \/ UserUpdateRole \/ UserDelete \/ UserUpdatePassword

SpecUsers == InitUsers /\ [][NextUsers]_vars

\* ------------------------------------------------ checkout, then return
\* one call of the test: the operation and the fields of its event
Call(o, book_id, user_id, at) ==
    [op |-> o, book_id |-> book_id, user_id |-> user_id, at |-> at]

\* user_id1 checks book_id1 out, user_id2 is refused, user_id1 returns it,
\* user_id2 checks it out
Scripts ==
    {<<Call("create", b, u1, at[1]), Call("create", b, u2, at[2]),
       Call("update_returned", b, u1, at[3]), Call("create", b, u2, at[4])>> :
        b \in books, u1 \in UserIds, u2 \in UserIds, at \in [1..4 -> Times]}

InitScript ==
    /\ checkouts = {}
    /\ returned_checkouts = <<>>
    /\ nextId = 0
    /\ nOps = 0
    /\ NoCalls
    /\ hist = NoHistory
    /\ script \in {sc \in Scripts : sc[1].user_id # sc[2].user_id}
    /\ usr = NoUsers
    /\ listed = NotFound

\* the event of call c; a return names the checkout the book has open (co.id)
ScriptEvent(c) ==
    IF c.op = "create"
    THEN [book_id |-> c.book_id, checked_out_by |-> c.user_id,
          checked_out_at |-> c.at]
    ELSE LET co == CHOOSE x \in find_unreturned_by_book_id(checkouts, c.book_id) : TRUE
         IN [checkout_id |-> co.id, book_id |-> c.book_id,
             returned_by |-> c.user_id, returned_at |-> c.at]

\* the next call of the script is made once the one before has returned
ScriptCall ==
    /\ nOps < Len(script)
    /\ Start(1, script[nOps + 1].op, ScriptEvent(script[nOps + 1]))

ScriptDone == nOps = Len(script) /\ pc[1] = "idle"

\* the calls run one after the other against a store that does not fail
NextScript ==
    \/ ScriptCall
    \/ SetTransactionSerializable(1)
    \/ CreateGuard(1)
    \/ CreateInsert(1)
    \/ UpdateReturnedGuard(1)
    \/ UpdateReturnedWrite(1)
    \/ Commit(1)

SpecScript == InitScript /\ [][NextScript]_vars

\* ================================================================ claims
OpenRowsOf(tbl, b) == {r \in tbl : r.book_id = b}
Finished(t) == pc[t] = "idle" /\ res[t] \notin {"none", "pending"}
\* t takes the step in which its guard read returns
GuardReadStep(t, o) ==
    /\ op[t] = o
    /\ pc[t] = "serializable"
    /\ guard[t] = NotRead
    /\ guard'[t] # NotRead
\* t takes the step in which its operation returns e
Returns(t, o, e) == op[t] = o /\ res[t] = "pending" /\ res'[t] = e

\* C1: in every committed state the open-checkout table holds at most one
\* row per book id, whatever the interleaving of create and update_returned
\* transactions.
C1_OneOpenCheckoutPerBook ==
    \A b \in BookIds : Cardinality(OpenRowsOf(checkouts, b)) <= 1

\* two creates of the same book both passed the guard read; one committed,
\* the other was aborted by the store
C1_Witness ==
    \E t \in Callers : \E u \in Callers \ {t} :
        /\ op[t] = "create" /\ op[u] = "create"
        /\ event[t].book_id = event[u].book_id
        /\ guard[t].book_id = event[t].book_id /\ guard[t].checkout_id = Null
        /\ guard[u].book_id = event[u].book_id /\ guard[u].checkout_id = Null
        /\ res[t] = "Ok"
        /\ Finished(u) /\ ended[u] = "rollback"
        /\ Cardinality(OpenRowsOf(checkouts, event[t].book_id)) = 1

C3_NotInBoth ==
    \A r \in checkouts : \A i \in 1..Len(returned_checkouts) :
        returned_checkouts[i].checkout_id # r.checkout_id

C3_MoveStep ==
    LET n == Len(returned_checkouts)
        added == {returned_checkouts'[i] : i \in (n + 1)..Len(returned_checkouts')}
        removed == checkouts \ checkouts'
    IN /\ Len(returned_checkouts') >= n
       /\ SubSeq(returned_checkouts', 1, n) = returned_checkouts
       /\ Len(returned_checkouts') = n + Cardinality(removed)
       /\ \A r \in removed : \E a \in added :
             /\ a.checkout_id = r.checkout_id
             /\ a.book_id = r.book_id
             /\ a.user_id = r.user_id
             /\ a.checked_out_at = r.checked_out_at
       /\ \A a \in added : \E r \in removed : a.checkout_id = r.checkout_id

C3_NeverHalfMigrated == [](C3_NotInBoth) /\ [][C3_MoveStep]_vars

\* an update_returned of an open checkout, admitted by the guard read, has
\* ended in error and the checkout is still whole in the open table
C3_Witness ==
    \E t \in Callers :
        /\ op[t] = "update_returned" /\ Finished(t) /\ ended[t] = "rollback"
        /\ guard[t].checkout_id = event[t].checkout_id
        /\ guard[t].user_id = event[t].returned_by
        /\ \E r \in checkouts : r.checkout_id = event[t].checkout_id
        /\ \A i \in 1..Len(returned_checkouts) :
              returned_checkouts[i].checkout_id # event[t].checkout_id

\* C4: for every open checkout C on book B by borrower U,
\* update_returned(C.id, B, U, t) returns Ok (the store not failing and the
\* caller not abandoning it); in the state it returns in,
\* find_unreturned_by_book_id(B) is None and the returned rows of B's
\* history hold a record of C with returned_at = t.
C4_ReturnStep ==
    \A t \in Callers :
        ( /\ op[t] = "update_returned"
          /\ res[t] = "pending" /\ res'[t] # "pending"
          /\ cause'[t] \in {"none", "error"}
          /\ guard'[t].book_id = event[t].book_id
          /\ guard'[t].checkout_id = event[t].checkout_id
          /\ guard'[t].user_id = event[t].returned_by )
        => /\ res'[t] = "Ok"
           /\ find_unreturned_by_book_id(checkouts', event[t].book_id) = {NoCheckout}
           /\ \E r \in ReturnedRowsOfBook(returned_checkouts', event[t].book_id) :
                 /\ CheckoutFromReturnedRow(r).id = event[t].checkout_id
                 /\ CheckoutFromReturnedRow(r).returned_at = event[t].returned_at

C4_MatchingReturnSucceeds == [][C4_ReturnStep]_vars

\* C5: the step in which create(B, borrower, at) returns Ok leaves exactly
\* one open checkout for B, and find_unreturned_by_book_id(B) returns it
\* with the submitted borrower and timestamp.
C5_CreateStep ==
    \A t \in Callers :
        Returns(t, "create", "Ok") =>
            LET b == event[t].book_id
                found == find_unreturned_by_book_id(checkouts', b)
            IN /\ Cardinality(OpenRowsOf(checkouts', b)) = 1
               /\ \A c \in found :
                     /\ c # NoCheckout
                     /\ c.book_id = b
                     /\ c.checked_out_by = event[t].checked_out_by
                     /\ c.checked_out_at = event[t].checked_out_at
                     /\ c.returned_at = Null

C5_CreateThenFind == [][C5_CreateStep]_vars

\* a create has returned Ok and the book's open checkout is the submitted one
C5_Witness ==
    \E t \in Callers :
        /\ op[t] = "create" /\ res[t] = "Ok"
        /\ \E c \in find_unreturned_by_book_id(checkouts, event[t].book_id) :
              /\ c # NoCheckout
              /\ c.checked_out_by = event[t].checked_out_by
              /\ c.checked_out_at = event[t].checked_out_at

\* C6: a create whose guard read runs while the book has an open checkout
\* returns UnprocessableEntity in that step, with nothing inserted and both
\* tables as they were.
C6_GuardStep ==
    \A t \in Callers :
        ( /\ GuardReadStep(t, "create")
          /\ OpenRowsOf(checkouts, event[t].book_id) # {} )
        => /\ res'[t] = "UnprocessableEntity"
           /\ pendIns'[t] = {}
           /\ checkouts' = checkouts
           /\ returned_checkouts' = returned_checkouts
           /\ nextId' = nextId

C6_SecondCreateConflicts == [][C6_GuardStep]_vars

\* a create on a checked-out book has been rejected and the checkout is there
C6_Witness ==
    \E t \in Callers :
        /\ op[t] = "create" /\ res[t] = "UnprocessableEntity"
        /\ \E r \in checkouts :
              r.book_id = event[t].book_id /\ r.checkout_id = guard[t].checkout_id

\* C7: an update_returned whose guard read finds the book's open checkout
\* with another borrower or another checkout id than the event's returns
\* UnprocessableEntity in that step and changes neither table.
C7_GuardStep ==
    \A t \in Callers :
        ( /\ GuardReadStep(t, "update_returned")
          /\ \E r \in OpenRowsOf(checkouts, event[t].book_id) :
                \/ r.user_id # event[t].returned_by
                \/ r.checkout_id # event[t].checkout_id )
        => /\ res'[t] = "UnprocessableEntity"
           /\ pendRet'[t] = {} /\ pendDel'[t] = {}
           /\ checkouts' = checkouts
           /\ returned_checkouts' = returned_checkouts

C7_MismatchConflicts == [][C7_GuardStep]_vars

\* a return by another user than the borrower, naming the right checkout,
\* has been rejected and the checkout is still open
C7_Witness ==
    \E t \in Callers :
        /\ op[t] = "update_returned" /\ res[t] = "UnprocessableEntity"
        /\ guard[t].checkout_id = event[t].checkout_id
        /\ guard[t].user_id # event[t].returned_by
        /\ \E r \in checkouts : r.checkout_id = event[t].checkout_id

\* C8: a create or update_returned whose guard read runs for a book id
\* without book row returns EntityNotFound in that step and changes neither
\* table.
C8_GuardStep ==
    \A t \in Callers : \A o \in {"create", "update_returned"} :
        (GuardReadStep(t, o) /\ event[t].book_id \notin books)
        => /\ res'[t] = "EntityNotFound"
           /\ checkouts' = checkouts
           /\ returned_checkouts' = returned_checkouts

C8_MissingBookNotFound == [][C8_GuardStep]_vars

\* both operations have been rejected for the book id without row
C8_Witness ==
    \E t \in Callers, u \in Callers :
        /\ op[t] = "create" /\ res[t] = "EntityNotFound"
        /\ op[u] = "update_returned" /\ res[u] = "EntityNotFound"
        /\ event[t].book_id = MissingBook /\ event[u].book_id = MissingBook

\* C9: of two creates of one book that both pass the guard read before
\* either commits, at most one commits, and the one the store aborts for
\* the conflict returns TransactionError.
C9_SerializationFailureIsTransactionError ==
    \A t \in Callers :
        (Finished(t) /\ cause[t] = "serialization") =>
            /\ res[t] = "TransactionError"
            /\ C1_OneOpenCheckoutPerBook

\* C10: the step in which a create or update_returned ends without commit
\* (an error of any step, or the caller abandoning it) leaves both tables
\* unchanged, and the transaction is rolled back, holding no lock and no
\* pending write.
C10_AbortStep ==
    \A t \in Callers :
        (pc[t] # "idle" /\ pc'[t] = "idle" /\ res'[t] # "Ok")
        => /\ checkouts' = checkouts
           /\ returned_checkouts' = returned_checkouts
           /\ ~txOpen'[t]
           /\ ended'[t] = "rollback"
           /\ pendIns'[t] = {} /\ pendRet'[t] = {} /\ pendDel'[t] = {}
           /\ sLock'[t] = {} /\ xLock'[t] = {}

C10_NoOpenTransaction ==
    \A t \in Callers : txOpen[t] <=> pc[t] # "idle"

C10_AbortLeavesStoreUnchanged ==
    [](C10_NoOpenTransaction) /\ [][C10_AbortStep]_vars

\* a create that had inserted its row failed to commit, another operation
\* was abandoned by its caller, and no row is in any table
C10_Witness ==
    \E t \in Callers : \E u \in Callers \ {t} :
        /\ op[t] = "create" /\ Finished(t)
        /\ res[t] = "TransactionError"
        /\ guard[t].checkout_id = Null /\ guard[t].book_id = event[t].book_id
        /\ ended[t] = "rollback" /\ ~txOpen[t]
        /\ Finished(u) /\ res[u] = "Cancelled"
        /\ ended[u] = "rollback" /\ ~txOpen[u]
        /\ checkouts = {} /\ returned_checkouts = <<>>
        /\ nextId > 0


\* the returned records in the result of the finished history call
ReturnedPart(h, co) ==
    IF co # NoCheckout THEN SubSeq(h, 2, Len(h)) ELSE h

\* C11: the result of find_history_by_book_id for a book with N returned
\* records lists exactly these N records, newest checked_out_at first; when
\* the book has an open checkout it is the element at index 0, before all N
\* returned records whatever its timestamp, and when it has none the result
\* is the N returned records alone
C11_HistoryOrder ==
    hist.pc = "done" =>
        LET h == hist.histories
            rows == ReturnedRowsOfBook(returned_checkouts, hist.book_id)
            part == ReturnedPart(h, hist.open)
        IN /\ hist.open # NoCheckout => Len(h) >= 1 /\ h[1] = hist.open
           /\ Len(part) = Cardinality(rows)
           /\ Range(part) = {CheckoutFromReturnedRow(r) : r \in rows}
           /\ \A i \in 1..(Len(part) - 1) :
                 part[i].checked_out_at[2] >= part[i + 1].checked_out_at[2]

\* a history of an open checkout and two returned ones, the open one older
\* than the newest returned one
C11_Witness ==
    /\ hist.pc = "done"
    /\ hist.open # NoCheckout
    /\ Len(hist.histories) = 3
    /\ hist.histories[2].checked_out_at[2] > hist.histories[3].checked_out_at[2]
    /\ hist.histories[1].checked_out_at[2] < hist.histories[2].checked_out_at[2]

\* C12: after create(B1, U1) returning K1, a refused create(B1, U2), the
\* close of K1 by U1 and a second create(B1, U2), the history of B1 holds
\* exactly one returned record, that of U1's checkout with the time of its
\* return, and the open checkout of B1 is the new one of U2
C12_HistoryAfterReturn ==
    ScriptDone =>
        /\ \A h \in find_history_by_book_id(checkouts, returned_checkouts,
                                             script[1].book_id) :
              \E i \in 1..Len(h) :
                 /\ h[i].checked_out_by = script[1].user_id
                 /\ h[i].checked_out_at = script[1].at
                 /\ h[i].returned_at = script[3].at
                 /\ \A j \in 1..Len(h) : h[j].returned_at # Null => j = i
        /\ \A co \in find_unreturned_by_book_id(checkouts, script[1].book_id) :
              /\ co # NoCheckout
              /\ co.checked_out_by = script[4].user_id
              /\ co.checked_out_at = script[4].at

\* C13: once the open checkout of a book has been returned by its borrower,
\* the next create for the book succeeds, also for the borrower who was
\* refused while it was open
C13_BorrowableAfterReturn ==
    ScriptDone => res[1] = "Ok"

\* the role name of user row u (INNER JOIN roles USING(role_id))
RoleNames(u) == {r.name : r \in {x \in roles : x.role_id = u.role_id}}

\* C14: update_role for a user id that has a row returns Ok and leaves the
\* user with the role of the event; it returns EntityNotFound only when no
\* user has the id
C14_UpdateRoleSetsRole ==
    usr.op = "update_role" =>
        LET named == {u \in usr.rows : u.user_id = usr.event.user_id}
        IN /\ named # {} =>
                /\ usr.res = "Ok"
                /\ \A u \in named : RoleNames(u) = {usr.event.role}
           /\ usr.res = "EntityNotFound" => named = {}

\* the returned rows with checkout id k
ReturnedRowsOf(k) ==
    {i \in 1..Len(returned_checkouts) : returned_checkouts[i].checkout_id = k}

\* t is in, or has finished, an update_returned that names a checkout already
\* returned and whose guard read listed the book with no open checkout
ClosesReturned(t) ==
    /\ op[t] = "update_returned"
    /\ event[t] # NoEvent
    /\ ReturnedRowsOf(event[t].checkout_id) # {}
    /\ guard[t].book_id = event[t].book_id
    /\ guard[t].checkout_id = Null

\* C15: an update_returned that names an already returned checkout, for a
\* book that exists and has no open checkout, passes the guard read and
\* fails at the INSERT ... SELECT with NoRowsAffectedError (unless the store
\* fails or the caller gives up first); it never reaches the delete and the
\* checkout keeps its single returned row
C15_ReturnOfReturnedFails ==
    \A t \in Callers :
        ClosesReturned(t) =>
            /\ pc[t] \in {"guarded", "idle"}
            /\ pendRet[t] = {}
            /\ Cardinality(ReturnedRowsOf(event[t].checkout_id)) = 1
            /\ pc[t] = "idle" /\ cause[t] \notin {"store", "cancel"} =>
                    res[t] = "NoRowsAffectedError"

C15_Witness ==
    \E t \in Callers :
        /\ ClosesReturned(t)
        /\ pc[t] = "idle"
        /\ res[t] = "NoRowsAffectedError"

\* the checkout the first read listed open is no element of the result
InNeither ==
    \A i \in 1..Len(hist.histories) : hist.histories[i].id # hist.open.id

GuardOrWriteIssued(t) ==
    \/ guard[t] # NotRead
    \/ pendIns[t] # {} \/ pendRet[t] # {} \/ pendDel[t] # {}
    \/ sLock[t] # {} \/ xLock[t] # {}

\* C17: in create and in update_returned the transaction is set SERIALIZABLE
\* after begin and before the guard read and any write; an operation whose
\* transaction began but was not set SERIALIZABLE returns an error and has
\* issued neither the guard read nor a write
C17_SerializableBeforeGuard ==
    \A t \in Callers :
        /\ iso[t] => ended[t] \in {"open", "commit", "rollback"}
        /\ GuardOrWriteIssued(t) => iso[t]
        /\ pc[t] = "idle" /\ ended[t] = "rollback" /\ ~iso[t] =>
              /\ res[t] \in {"SpecificOperationError", "Cancelled"}
              /\ ~GuardOrWriteIssued(t)

\* the isolation statement of an operation failed
C17_Witness ==
    \E t \in Callers :
        /\ pc[t] = "idle"
        /\ ended[t] = "rollback"
        /\ ~iso[t]
        /\ res[t] = "SpecificOperationError"
        /\ \E u \in Callers : iso[u] /\ guard[u] # NotRead

\* C18: the NoRowsAffectedError branch of create is never taken: the insert
\* that follows a passed guard read affects exactly one row, or the
\* statement itself fails with SpecificOperationError
C18_CreateInsertsOneRow ==
    \A t \in Callers :
        op[t] = "create" =>
            /\ res[t] # "NoRowsAffectedError"
            /\ pc[t] = "written" => Cardinality(pendIns[t]) = 1
            /\ pc[t] = "idle" /\ guard[t] # NotRead /\ cause[t] = "error" =>
                  CreateGuardDecision(guard[t]) = res[t]

\* one create has its insert done, another failed at the insert statement
C18_Witness ==
    \E t \in Callers : \E u \in Callers :
        /\ op[t] = "create" /\ pc[t] = "written"
        /\ op[u] = "create" /\ pc[u] = "idle"
        /\ CreateGuardDecision(guard[u]) = "Proceed"
        /\ res[u] = "SpecificOperationError"

\* every returned record is still there after the step, with every field
ReturnedKept ==
    /\ Len(returned_checkouts') >= Len(returned_checkouts)
    /\ \A i \in 1..Len(returned_checkouts) :
          returned_checkouts'[i] = returned_checkouts[i]

\* C19: the returned records are append-only: no step of a create, an
\* update_returned or a read removes a returned record or changes a field
\* of one
C19_ReturnedAppendOnly == [][ReturnedKept]_vars

\* returned records are there after a create has committed, a return naming
\* one of them has run and the history has been read
C19_Witness ==
    /\ Len(returned_checkouts) >= 1
    /\ checkouts # {}
    /\ hist.pc = "done"
    /\ \E t \in Callers :
          /\ op[t] = "update_returned"
          /\ pc[t] = "idle"
          /\ res[t] = "NoRowsAffectedError"
          /\ ReturnedRowsOf(event[t].checkout_id) # {}

\* the elements of list a whose borrower is user_id, in the order of a
RECURSIVE OfBorrower(_, _)
OfBorrower(a, user_id) ==
    IF a = <<>> THEN <<>>
    ELSE IF Head(a).checked_out_by = user_id
         THEN <<Head(a)>> \o OfBorrower(Tail(a), user_id)
         ELSE OfBorrower(Tail(a), user_id)

\* list a holds exactly the checkouts of rows, oldest checked_out_at first
ListsOldestFirst(a, rows) ==
    /\ Len(a) = Cardinality(rows)
    /\ Range(a) = {CheckoutFromRow(c) : c \in rows}
    /\ \A i \in 1..(Len(a) - 1) :
          a[i].checked_out_at[2] <= a[i + 1].checked_out_at[2]

\* C20 as stated: find_unreturned_all lists every open checkout whose book
\* exists, oldest first, and the list of find_unreturned_by_user_id(U) is
\* its subsequence of the checkouts of U, in the same order
C20_ByUserIsSubsequence ==
    listed.allDone /\ listed.byDone =>
        /\ ListsOldestFirst(listed.all, {c \in checkouts : c.book_id \in books})
        /\ listed.by = OfBorrower(listed.all, listed.user_id)

\* C20, amended: find_unreturned_all lists every open checkout whose book
\* exists, oldest first; find_unreturned_by_user_id(U) lists exactly those
\* of them whose borrower is U, oldest first, so that two of them with
\* different checked_out_at come in the order find_unreturned_all has them in
C20_ByUserSameCheckoutsOldestFirst ==
    listed.allDone /\ listed.byDone =>
        /\ ListsOldestFirst(listed.all, {c \in checkouts : c.book_id \in books})
        /\ ListsOldestFirst(listed.by,
                            {c \in checkouts : /\ c.book_id \in books
                                               /\ c.user_id = listed.user_id})
        /\ \A i \in 1..Len(listed.by) : \A j \in 1..Len(listed.by) :
              i < j /\ listed.by[i].checked_out_at # listed.by[j].checked_out_at =>
                \E k \in 1..Len(listed.all) : \E l \in 1..Len(listed.all) :
                   k < l /\ listed.all[k] = listed.by[i] /\ listed.all[l] = listed.by[j]

\* both lists were read and the borrower has two open checkouts of different
\* checked_out_at
C20_Witness ==
    /\ listed.allDone /\ listed.byDone
    /\ Len(listed.by) >= 2
    /\ listed.by[1].checked_out_at # listed.by[2].checked_out_at

\* t is in an update_returned for the open checkout of its book, called by
\* the borrower, and past its guard read
ClosesOpen(t) ==
    /\ op[t] = "update_returned"
    /\ pc[t] = "guarded"
    /\ guard[t].checkout_id = event[t].checkout_id
    /\ guard[t].user_id = event[t].returned_by
    /\ \E r \in checkouts : r.checkout_id = event[t].checkout_id

\* C21: in every committed state no checkout id has both an open row and a
\* returned row, no id has two open rows, and no id has two returned rows,
\* also when two update_returned calls for the same checkout run at once
C21_ReturnedAtMostOnce ==
    /\ \A r \in checkouts : ReturnedRowsOf(r.checkout_id) = {}
    /\ \A r \in checkouts : \A q \in checkouts :
          r.checkout_id = q.checkout_id => r = q
    /\ \A i \in 1..Len(returned_checkouts) :
          Cardinality(ReturnedRowsOf(returned_checkouts[i].checkout_id)) = 1

\* two callers are past the guard read of a return of the same open checkout
C21_Witness ==
    /\ Len(returned_checkouts) >= 1
    /\ \E t \in Callers : \E u \in Callers \ {t} :
          /\ ClosesOpen(t)
          /\ ClosesOpen(u)
          /\ event[t].checkout_id = event[u].checkout_id

\* the step is an update_password call that returns
UpdatePasswordStep ==
    usr'.op = "update_password" =>
        LET ev == usr'.event
            before == {u \in usr.rows : u.user_id = ev.user_id}
            after == {u \in usr'.rows : u.user_id = ev.user_id}
            verifies == \E u \in before :
                           verify_password(ev.current_password, u.password_hash)
        IN /\ usr'.res = "Ok" =>
                /\ verifies
                /\ after # {}
                /\ \A u \in after :
                      verify_password(ev.new_password, u.password_hash)
                /\ usr'.rows \ after = usr.rows \ before
           /\ before # {} /\ ~verifies =>
                /\ usr'.res = "UnauthenticatedError"
                /\ usr'.rows = usr.rows

\* C22: update_password returns Ok only if the current password verifies
\* against the stored hash, and then the stored hash of the user verifies
\* the new password and the hash of no other user has changed; when the
\* current password does not verify it returns UnauthenticatedError and
\* leaves the stored hash as it was
C22_UpdatePasswordSetsHash == [][UpdatePasswordStep]_vars

====
